---- MODULE Spec2Model ----
(***************************************************************************)
(* Model of the approval and fallback-routing engine of src/app.py: the    *)
(* five JSON documents on disk, load_json / save_json, get_approving_doctor *)
(* and approve_case.                                                        *)
(***************************************************************************)
EXTENDS Integers, Sequences, FiniteSets, TLC

VARIABLES files, last, session, calls

vars == <<files, last, session, calls>>

\* ---- bounds ----
NumPatients == 2
NumDoctors == 3
MaxCalls == 3

AllPatientIds == <<"P1", "P2", "P3", "P4">>
AllDoctorIds == <<"D1", "D2", "D3", "D4", "D5">>
PatientIds == {AllPatientIds[i] : i \in 1..NumPatients}
DoctorIds == {AllDoctorIds[i] : i \in 1..NumDoctors}
\* the two browser sessions of the race
Sessions == {"A", "B"}

\* an id that is a key of no collection
UnknownPatient == "P0"
CallIds == PatientIds \cup {UnknownPatient}

\* ---- CONFIG ----
patients_path == "patients.json"
doctors_path == "doctors.json"
dashboard_path == "doctor_dashboard.json"
appointments_path == "appointments.json"
notifications_path == "notifications.json"
Paths == {patients_path, doctors_path, dashboard_path, appointments_path, notifications_path}

Severities == {"Normal", "Mild", "Severe"}
None == "None"

\* ---- JSON documents ----
EmptyMap == [k \in {} |-> k]

Put(m, k, v) == [x \in DOMAIN m \cup {k} |-> IF x = k THEN v ELSE m[x]]

\* dict.get(key, default)
Get(rec, key, default) == IF key \in DOMAIN rec THEN rec[key] ELSE default

\* a document on disk: state is "absent", "malformed" or "ok"
Doc(data) == [state |-> "ok", data |-> data]
AbsentDoc == [state |-> "absent", data |-> EmptyMap]
MalformedDoc == [state |-> "malformed", data |-> EmptyMap]

\* ==== UTILS ====
Returned(v) == [ok |-> TRUE, value |-> v]
Raised == [ok |-> FALSE, value |-> EmptyMap]

load_json(F, path, default) ==
    IF F[path].state = "absent" THEN Returned(default)
    ELSE IF F[path].state = "malformed" THEN Raised
    ELSE Returned(F[path].data)

save_json(F, path, data) == [F EXCEPT ![path] = Doc(data)]

\* ==== FALLBACK DOCTOR LOGIC ====
is_available(doc) == Get(doc, "available", TRUE)

\* doctors.items(): the keys of the loaded document in document order, which is
\* the order of the ids
items(doctors) == SelectSeq(AllDoctorIds, LAMBDA d : d \in DOMAIN doctors)

\* the scan without the department test of line 44
RECURSIVE fallback_scan_any_department(_, _, _, _)
fallback_scan_any_department(ks, doctors, assigned_doc, assigned_dept) ==
    IF ks = <<>> THEN None
    ELSE LET did == Head(ks)
             doc == doctors[did]
         IN IF Get(doc, "available", TRUE) /\ did # assigned_doc
            THEN did
            ELSE fallback_scan_any_department(Tail(ks), doctors, assigned_doc, assigned_dept)

\* the scan without the availability test of line 45
RECURSIVE fallback_scan_any_availability(_, _, _, _)
fallback_scan_any_availability(ks, doctors, assigned_doc, assigned_dept) ==
    IF ks = <<>> THEN None
    ELSE LET did == Head(ks)
             doc == doctors[did]
         IN IF doc.department = assigned_dept /\ did # assigned_doc
            THEN did
            ELSE fallback_scan_any_availability(Tail(ks), doctors, assigned_doc, assigned_dept)

RECURSIVE fallback_scan(_, _, _, _)
fallback_scan(ks, doctors, assigned_doc, assigned_dept) ==
    IF ks = <<>> THEN None
    ELSE LET did == Head(ks)
             doc == doctors[did]
         IN IF /\ doc.department = assigned_dept
               /\ is_available(doc)
               /\ did # assigned_doc
            THEN did
            ELSE fallback_scan(Tail(ks), doctors, assigned_doc, assigned_dept)

get_approving_doctor(F, patient_id) ==
    LET p == load_json(F, patients_path, EmptyMap)
        d == load_json(F, doctors_path, EmptyMap)
    IN IF ~p.ok \/ ~d.ok THEN Raised
       ELSE IF patient_id \notin DOMAIN p.value THEN Raised
       ELSE LET assigned_doc == p.value[patient_id].doctor_id
            IN IF assigned_doc \notin DOMAIN d.value THEN Raised
               ELSE LET assigned_dept == d.value[assigned_doc].department
                    IN IF is_available(d.value[assigned_doc])
                       THEN Returned(assigned_doc)
                       ELSE Returned(fallback_scan(items(d.value), d.value,
                                                   assigned_doc, assigned_dept))

\* ==== APPROVAL ENGINE ====
Today == "today"
Now == "now"

\* lines 72-73: case["approved_by"] = approver; case["status"] = "Approved"
approved_case(case, approver) == Put(Put(case, "approved_by", approver), "status", "Approved")

\* lines 76-90: the message template chosen by severity
message_for(case, severity) ==
    IF severity = "Normal" THEN <<"normal", case.patient_name>>
    ELSE IF severity = "Mild" THEN <<"mild", case.patient_name>>
    ELSE <<"urgent", case.patient_name>>

\* lines 92-98
appt_for(patient_id, approver) ==
    [patient_id |-> patient_id,
     doctor_id |-> approver,
     date |-> Today,
     time |-> "10:00 AM",
     status |-> "Scheduled"]

\* the Mild branch falling through to the appointment
creates_appointment_unless_normal(severity) == severity # "Normal"

\* lines 86-100: only the else branch touches the appointments
creates_appointment(severity) == severity # "Normal" /\ severity # "Mild"

\* lines 102-107
notification_for(case, severity, approver) ==
    [message |-> message_for(case, severity),
     severity |-> severity,
     approved_by |-> approver,
     time |-> Now]

\* line 60
not_in_dashboard(dashboard, patient_id) == patient_id \notin DOMAIN dashboard

\* the check of line 68 left out
is_none_skipped(approver) == FALSE

\* line 68
is_none(approver) == approver = None

Outcome(o, a, F) == [outcome |-> o, approver |-> a, files |-> F]

\* the appointment booked with the assigned doctor instead of the approver
saved_appointments_assigned(F, appointments, patient_id, severity, approver) ==
    IF severity # "Normal" /\ severity # "Mild"
    THEN [F EXCEPT ![appointments_path] =
            Doc(Put(appointments, patient_id,
                    [patient_id |-> patient_id,
                     doctor_id |-> F[patients_path].data[patient_id].doctor_id,
                     date |-> Today, time |-> "10:00 AM", status |-> "Scheduled"]))]
    ELSE F

\* the three saves of a successful call, in source order
saved_appointments(F, appointments, patient_id, severity, approver) ==
    IF creates_appointment(severity)
    THEN save_json(F, appointments_path, Put(appointments, patient_id, appt_for(patient_id, approver)))
    ELSE F

\* an existing notification kept instead of overwritten
saved_notifications_keep_existing(F, notifications, patient_id, case, severity, approver) ==
    [F EXCEPT ![notifications_path] =
        Doc(IF patient_id \in DOMAIN notifications THEN notifications
            ELSE Put(notifications, patient_id,
                     [message |-> message_for(case, severity), severity |-> severity,
                      approved_by |-> approver, time |-> Now]))]

\* the notifications document rewritten with this patient's entry alone
saved_notifications_only_patient(F, notifications, patient_id, case, severity, approver) ==
    [F EXCEPT ![notifications_path] =
        Doc(Put(EmptyMap, patient_id,
                [message |-> message_for(case, severity), severity |-> severity,
                 approved_by |-> approver, time |-> Now]))]

saved_notifications(F, notifications, patient_id, case, severity, approver) ==
    save_json(F, notifications_path,
              Put(notifications, patient_id, notification_for(case, severity, approver)))

\* the dashboard document rewritten with this patient's case alone
saved_dashboard_only_case(F, dashboard, patient_id, case) ==
    [F EXCEPT ![dashboard_path] = Doc(Put(EmptyMap, patient_id, case))]

\* the case merged into the document as it is on disk at the time of the save
saved_dashboard_merged(F, dashboard, patient_id, case) ==
    [F EXCEPT ![dashboard_path] = Doc(Put(F[dashboard_path].data, patient_id, case))]

saved_dashboard(F, dashboard, patient_id, case) ==
    save_json(F, dashboard_path, Put(dashboard, patient_id, case))

\* approve_case run to completion on the documents F
approve_case(F, patient_id) ==
    LET dashboard == load_json(F, dashboard_path, EmptyMap)
        appointments == load_json(F, appointments_path, EmptyMap)
        notifications == load_json(F, notifications_path, EmptyMap)
    IN IF ~dashboard.ok \/ ~appointments.ok \/ ~notifications.ok
       THEN Outcome("raised", None, F)
       ELSE IF not_in_dashboard(dashboard.value, patient_id)
       THEN Outcome("not_found", None, F)
       ELSE LET case0 == dashboard.value[patient_id]
                severity == case0.final_severity
                approver == get_approving_doctor(F, patient_id)
            IN IF ~approver.ok THEN Outcome("raised", None, F)
               ELSE IF is_none(approver.value) THEN Outcome("no_approver", None, F)
               ELSE LET case == approved_case(case0, approver.value)
                        F1 == saved_appointments(F, appointments.value, patient_id,
                                                 severity, approver.value)
                        F2 == saved_notifications(F1, notifications.value, patient_id,
                                                  case, severity, approver.value)
                        F3 == saved_dashboard(F2, dashboard.value, patient_id, case)
                    IN Outcome("approved", approver.value, F3)

\* ==== the documents produced by the AI-processing step ====
department_of(d) == IF d = AllDoctorIds[NumDoctors] THEN "Neurology" ELSE "Cardiology"

doctor_record(d, flag) ==
    IF flag = "absent" THEN [name |-> d, department |-> department_of(d)]
    ELSE [name |-> d, department |-> department_of(d), available |-> (flag = "true")]

patient_record(p, d) == [name |-> p, symptoms |-> "symptoms", doctor_id |-> d]

case_record(p, d, sev) ==
    [patient_name |-> p,
     symptoms |-> "symptoms",
     doctor_id |-> d,
     final_severity |-> sev,
     status |-> "Pending Review"]

\* P1 is assigned the last doctor, P2 the one before, ...
assigned_doctor(p) ==
    LET i == CHOOSE j \in 1..NumPatients : AllPatientIds[j] = p
    IN AllDoctorIds[NumDoctors - ((i - 1) % NumDoctors)]

Faults == {<<"none", "none">>} \cup (Paths \X {"absent", "malformed"})

with_fault(F, fault) ==
    IF fault[1] = "none" THEN F
    ELSE [F EXCEPT ![fault[1]] = IF fault[2] = "absent" THEN AbsentDoc ELSE MalformedDoc]

IdleSession ==
    [pc |-> "idle", patient_id |-> UnknownPatient, outcome |-> "none", approver |-> None,
     dashboard |-> EmptyMap, appointments |-> EmptyMap, notifications |-> EmptyMap]

NoCall ==
    [op |-> "none", patient_id |-> UnknownPatient, outcome |-> "none", approver |-> None,
     reapproval |-> FALSE]

Init ==
    /\ \E sev \in [PatientIds -> Severities],
          flag \in [DoctorIds -> {"true", "false", "absent"}],
          fault \in Faults :
          files = with_fault(
              [path \in Paths |->
                  IF path = patients_path
                  THEN Doc([p \in PatientIds |-> patient_record(p, assigned_doctor(p))])
                  ELSE IF path = doctors_path
                  THEN Doc([d \in DoctorIds |-> doctor_record(d, flag[d])])
                  ELSE IF path = dashboard_path
                  THEN Doc([p \in PatientIds |-> case_record(p, assigned_doctor(p), sev[p])])
                  ELSE Doc(EmptyMap)],
              fault)
    /\ last = NoCall
    /\ session = [s \in Sessions |-> IdleSession]
    /\ calls = 0

\* ==== one clinician at a time: approve_case runs to completion ====
ApproveCase(patient_id) ==
    LET r == approve_case(files, patient_id)
    IN /\ files' = r.files
       /\ last' = [op |-> "approve_case", patient_id |-> patient_id,
                   outcome |-> r.outcome, approver |-> r.approver,
                   reapproval |-> /\ patient_id \in DOMAIN files[dashboard_path].data
                                  /\ files[dashboard_path].data[patient_id].status = "Approved"]
       /\ UNCHANGED <<session, calls>>

\* the doctors document is rewritten outside the engine with one flag changed
set_available(F, d, v) ==
    [F EXCEPT ![doctors_path].data[d] = Put(@, "available", v)]

SetAvailable(d, v) ==
    /\ files[doctors_path].state = "ok"
    /\ d \in DOMAIN files[doctors_path].data
    /\ is_available(files[doctors_path].data[d]) # v
    /\ files' = set_available(files, d, v)
    /\ last' = [NoCall EXCEPT !.op = "set_available"]
    /\ UNCHANGED <<session, calls>>

Next ==
    \/ \E patient_id \in CallIds : ApproveCase(patient_id)
    \/ \E d \in DoctorIds, v \in BOOLEAN : SetAvailable(d, v)

Spec == Init /\ [][Next]_vars

\* ==== several sessions: every file access of approve_case is one step ====
Finished(sess, o) ==
    [IdleSession EXCEPT !.pc = "done", !.patient_id = sess.patient_id,
                        !.outcome = o, !.approver = sess.approver]

SessionStep(s, sess) == session' = [session EXCEPT ![s] = sess]

\* line 56
LoadDashboard(s, patient_id) ==
    /\ session[s].pc \in {"idle", "done"}
    /\ calls < MaxCalls
    /\ calls' = calls + 1
    /\ LET r == load_json(files, dashboard_path, EmptyMap)
           started == [IdleSession EXCEPT !.patient_id = patient_id]
       IN SessionStep(s, IF r.ok
                         THEN [started EXCEPT !.pc = "load_appointments", !.dashboard = r.value]
                         ELSE Finished(started, "raised"))
    /\ UNCHANGED <<files, last>>

\* line 57
LoadAppointments(s) ==
    /\ session[s].pc = "load_appointments"
    /\ LET r == load_json(files, appointments_path, EmptyMap)
       IN SessionStep(s, IF r.ok
                         THEN [session[s] EXCEPT !.pc = "load_notifications",
                                                 !.appointments = r.value]
                         ELSE Finished(session[s], "raised"))
    /\ UNCHANGED <<files, last, calls>>

\* line 58
LoadNotifications(s) ==
    /\ session[s].pc = "load_notifications"
    /\ LET r == load_json(files, notifications_path, EmptyMap)
       IN SessionStep(s, IF r.ok
                         THEN [session[s] EXCEPT !.pc = "resolve", !.notifications = r.value]
                         ELSE Finished(session[s], "raised"))
    /\ UNCHANGED <<files, last, calls>>

\* lines 60-73: the checks, the approver and the update of the loaded case
Resolve(s) ==
    /\ session[s].pc = "resolve"
    /\ LET sess == session[s]
           patient_id == sess.patient_id
           approver == get_approving_doctor(files, patient_id)
       IN SessionStep(s,
            IF not_in_dashboard(sess.dashboard, patient_id) THEN Finished(sess, "not_found")
            ELSE IF ~approver.ok THEN Finished(sess, "raised")
            ELSE IF is_none(approver.value) THEN Finished(sess, "no_approver")
            ELSE [sess EXCEPT
                    !.approver = approver.value,
                    !.dashboard = Put(@, patient_id, approved_case(@[patient_id], approver.value)),
                    !.pc = IF creates_appointment(sess.dashboard[patient_id].final_severity)
                           THEN "save_appointments" ELSE "save_notifications"])
    /\ UNCHANGED <<files, last, calls>>

\* lines 99-100
SaveAppointments(s) ==
    /\ session[s].pc = "save_appointments"
    /\ LET sess == session[s]
           case == sess.dashboard[sess.patient_id]
       IN files' = saved_appointments(files, sess.appointments, sess.patient_id,
                                      case.final_severity, sess.approver)
    /\ SessionStep(s, [session[s] EXCEPT !.pc = "save_notifications"])
    /\ UNCHANGED <<last, calls>>

\* lines 102-110
SaveNotifications(s) ==
    /\ session[s].pc = "save_notifications"
    /\ LET sess == session[s]
           case == sess.dashboard[sess.patient_id]
       IN files' = saved_notifications(files, sess.notifications, sess.patient_id,
                                       case, case.final_severity, sess.approver)
    /\ SessionStep(s, [session[s] EXCEPT !.pc = "save_dashboard"])
    /\ UNCHANGED <<last, calls>>

\* lines 111-112
SaveDashboard(s) ==
    /\ session[s].pc = "save_dashboard"
    /\ LET sess == session[s]
       IN files' = saved_dashboard(files, sess.dashboard, sess.patient_id,
                                   sess.dashboard[sess.patient_id])
    /\ SessionStep(s, Finished(session[s], "approved"))
    /\ UNCHANGED <<last, calls>>

InitConc ==
    /\ Init
    /\ \A path \in Paths : files[path].state = "ok"
    /\ \A d \in DoctorIds : "available" \notin DOMAIN files[doctors_path].data[d]
    /\ \A p \in PatientIds : files[dashboard_path].data[p].final_severity # "Normal"

NextConc ==
    \/ \E s \in Sessions, patient_id \in CallIds : LoadDashboard(s, patient_id)
    \/ \E s \in Sessions : LoadAppointments(s)
    \/ \E s \in Sessions : LoadNotifications(s)
    \/ \E s \in Sessions : Resolve(s)
    \/ \E s \in Sessions : SaveAppointments(s)
    \/ \E s \in Sessions : SaveNotifications(s)
    \/ \E s \in Sessions : SaveDashboard(s)

SpecConc == InitConc /\ [][NextConc]_vars

\* ==== properties ====
cases(F) == F[dashboard_path].data
notes(F) == F[notifications_path].data
appts(F) == F[appointments_path].data
doctors_on(F) == F[doctors_path].data
patients_on(F) == F[patients_path].data

flag_true_or_absent(doc) == "available" \notin DOMAIN doc \/ doc.available = TRUE

status_of(F, p) == IF p \in DOMAIN cases(F) THEN cases(F)[p].status ELSE "no case"

approved_by_of(F, p) ==
    IF p \in DOMAIN cases(F) /\ "approved_by" \in DOMAIN cases(F)[p]
    THEN cases(F)[p].approved_by ELSE "unset"

\* the step just taken is a call of approve_case
CallStep == last'.op = "approve_case"
\* ... and it succeeded
SuccessStep == CallStep /\ last'.outcome = "approved"

\* C1: a call of approve_case for an id that is no key of the Case collection, or
\* for which get_approving_doctor returns no doctor, does not succeed and leaves
\* every document on disk exactly as it was.
TheoremC1 ==
    [][(/\ CallStep
        /\ \/ last'.patient_id \notin DOMAIN cases(files)
           \/ get_approving_doctor(files, last'.patient_id) = Returned(None))
       => /\ last'.outcome # "approved"
          /\ files' = files]_vars

\* a failing call (no approver) made after another patient's case was approved
WitnessC1 ==
    /\ last.op = "approve_case"
    /\ last.outcome = "no_approver"
    /\ \E q \in PatientIds : status_of(files, q) = "Approved"

\* C2: after a successful call on a Severe case the Appointment collection holds
\* the entry of that patient with the resolved approver, "10:00 AM" and Scheduled,
\* whatever was there before; on a Normal or Mild case the Appointment document
\* is unchanged.
TheoremC2 ==
    [][SuccessStep =>
        LET p == last'.patient_id
            severity == cases(files)[p].final_severity
        IN /\ severity = "Severe" =>
                /\ p \in DOMAIN appts(files')
                /\ appts(files')[p].doctor_id = get_approving_doctor(files, p).value
                /\ appts(files')[p].time = "10:00 AM"
                /\ appts(files')[p].status = "Scheduled"
                /\ appts(files')[p].patient_id = p
           /\ severity \in {"Normal", "Mild"} =>
                files'[appointments_path] = files[appointments_path]]_vars

\* a Severe case approved a second time by a fallback doctor: its appointment is
\* the new approver's
WitnessC2 ==
    /\ last.op = "approve_case" /\ last.outcome = "approved" /\ last.reapproval
    /\ cases(files)[last.patient_id].final_severity = "Severe"
    /\ appts(files)[last.patient_id].doctor_id = last.approver
    /\ last.approver # cases(files)[last.patient_id].doctor_id

\* C3: with the patient and the assigned doctor on record, get_approving_doctor
\* returns the assigned doctor exactly when that doctor's flag is true or absent;
\* otherwise another doctor of the same department whose flag is true or absent,
\* and None exactly when there is no such doctor; never an unavailable doctor.
TheoremC3 ==
    (files[patients_path].state = "ok" /\ files[doctors_path].state = "ok") =>
    \A p \in DOMAIN patients_on(files) :
        LET doctors == doctors_on(files)
            assigned == patients_on(files)[p].doctor_id
        IN assigned \in DOMAIN doctors =>
           LET r == get_approving_doctor(files, p)
               others == {d \in DOMAIN doctors :
                            /\ d # assigned
                            /\ doctors[d].department = doctors[assigned].department
                            /\ flag_true_or_absent(doctors[d])}
           IN /\ r.ok
              /\ (r.value = assigned) <=> flag_true_or_absent(doctors[assigned])
              /\ ~flag_true_or_absent(doctors[assigned]) =>
                    IF others = {} THEN r.value = None ELSE r.value \in others
              /\ r.value # None => flag_true_or_absent(doctors[r.value])

\* approve_case has just used a fallback doctor for one patient, and another
\* patient now resolves to None
WitnessC3 ==
    /\ last.op = "approve_case" /\ last.outcome = "approved"
    /\ get_approving_doctor(files, last.patient_id) = Returned(last.approver)
    /\ last.approver # patients_on(files)[last.patient_id].doctor_id
    /\ \E p \in PatientIds : get_approving_doctor(files, p) = Returned(None)

\* C4: a status changes only from Pending Review to Approved and only in a
\* successful call for that patient; an Approved case stays Approved.
TheoremC4 ==
    [][\A p \in PatientIds :
        /\ status_of(files', p) # status_of(files, p) =>
              /\ status_of(files, p) = "Pending Review"
              /\ status_of(files', p) = "Approved"
              /\ SuccessStep
              /\ last'.patient_id = p
        /\ status_of(files, p) = "Approved" => status_of(files', p) = "Approved"
        /\ (SuccessStep /\ last'.patient_id = p) => status_of(files', p) = "Approved"]_vars

\* the second of two successful calls for one patient, another case being
\* Approved as well
WitnessC4 ==
    /\ last.op = "approve_case" /\ last.outcome = "approved" /\ last.reapproval
    /\ status_of(files, last.patient_id) = "Approved"
    /\ \E q \in PatientIds \ {last.patient_id} : status_of(files, q) = "Approved"

\* C5: approved_by is written only by a successful call for that patient, and
\* the doctor it then names has a true or absent flag in the Doctor document that
\* call read; a call that finds no approver writes nothing.
TheoremC5 ==
    [][/\ \A p \in PatientIds :
            approved_by_of(files', p) # approved_by_of(files, p) =>
                SuccessStep /\ last'.patient_id = p
       /\ SuccessStep =>
            LET by == approved_by_of(files', last'.patient_id)
            IN /\ by = last'.approver
               /\ by \in DOMAIN doctors_on(files)
               /\ flag_true_or_absent(doctors_on(files)[by])
       /\ (CallStep /\ last'.outcome # "approved") => cases(files') = cases(files)]_vars

\* a case approved by a fallback doctor whose record carries no flag
WitnessC5 ==
    /\ last.op = "approve_case" /\ last.outcome = "approved"
    /\ approved_by_of(files, last.patient_id) = last.approver
    /\ last.approver # cases(files)[last.patient_id].doctor_id
    /\ "available" \notin DOMAIN doctors_on(files)[last.approver]

\* C6: after a successful call the Notification collection holds the entry of
\* that patient with the case's severity and the approver this call resolved,
\* whatever entry was there before.
TheoremC6 ==
    [][SuccessStep =>
        LET p == last'.patient_id
        IN /\ p \in DOMAIN notes(files')
           /\ notes(files')[p].severity = cases(files)[p].final_severity
           /\ notes(files')[p].approved_by = get_approving_doctor(files, p).value
           /\ notes(files')[p].approved_by = last'.approver]_vars

\* a re-approval by another doctor than the assigned one has replaced the entry
WitnessC6 ==
    /\ last.op = "approve_case" /\ last.outcome = "approved" /\ last.reapproval
    /\ notes(files)[last.patient_id].approved_by = last.approver
    /\ last.approver # cases(files)[last.patient_id].doctor_id

\* every document that is missing or malformed read as an empty one
as_if_empty(F) == [path \in Paths |-> IF F[path].state = "ok" THEN F[path] ELSE Doc(EmptyMap)]

\* C7: load returns an empty mapping for a missing and for a malformed document
\* alike, so a call that loads a malformed collection proceeds as if it were
\* empty.
ClaimC7 ==
    last.op = "approve_case" =>
        /\ \A path \in Paths :
              files[path].state # "ok" => load_json(files, path, EmptyMap) = Returned(EmptyMap)
        /\ last.outcome = approve_case(as_if_empty(files), last.patient_id).outcome

\* C8: a successful call for p changes the status and approved_by of Case[p], the
\* Notification entry of p and, for Severe, the Appointment entry of p, and
\* nothing else; no step removes a key from any collection.
TheoremC8 ==
    [][/\ \A path \in Paths : DOMAIN files[path].data \subseteq DOMAIN files'[path].data
       /\ SuccessStep =>
            LET p == last'.patient_id
                old == cases(files)[p]
                new == cases(files')[p]
            IN /\ files'[patients_path] = files[patients_path]
               /\ files'[doctors_path] = files[doctors_path]
               /\ DOMAIN cases(files') = DOMAIN cases(files)
               /\ \A q \in DOMAIN cases(files) \ {p} : cases(files')[q] = cases(files)[q]
               /\ DOMAIN new = DOMAIN old \cup {"approved_by"}
               /\ \A f \in DOMAIN old \ {"status", "approved_by"} : new[f] = old[f]
               /\ DOMAIN notes(files') = DOMAIN notes(files) \cup {p}
               /\ \A q \in DOMAIN notes(files) \ {p} : notes(files')[q] = notes(files)[q]
               /\ DOMAIN appts(files') \subseteq DOMAIN appts(files) \cup {p}
               /\ \A q \in DOMAIN appts(files) \ {p} : appts(files')[q] = appts(files)[q]
               /\ old.final_severity # "Severe" =>
                     files'[appointments_path] = files[appointments_path]]_vars

\* a successful call for one patient with another patient's case, notification
\* and appointment already on disk
WitnessC8 ==
    /\ last.op = "approve_case" /\ last.outcome = "approved"
    /\ \E q \in PatientIds \ {last.patient_id} :
          /\ status_of(files, q) = "Approved"
          /\ q \in DOMAIN notes(files)
          /\ q \in DOMAIN appts(files)

\* C10: an Approved case has a notification naming its approved_by, a Severe
\* Approved case an appointment with that doctor; a Pending Review case has no
\* notification and no appointment, a Normal or Mild case no appointment.
TheoremC10 ==
    \A p \in DOMAIN cases(files) :
        LET case == cases(files)[p]
        IN /\ case.status = "Approved" =>
                /\ p \in DOMAIN notes(files)
                /\ notes(files)[p].approved_by = case.approved_by
           /\ (case.status = "Approved" /\ case.final_severity = "Severe") =>
                /\ p \in DOMAIN appts(files)
                /\ appts(files)[p].doctor_id = case.approved_by
           /\ case.status = "Pending Review" =>
                p \notin DOMAIN notes(files) /\ p \notin DOMAIN appts(files)
           /\ case.final_severity \in {"Normal", "Mild"} => p \notin DOMAIN appts(files)

\* a Severe case re-approved by a fallback doctor next to a Pending Review case
WitnessC10 ==
    /\ last.op = "approve_case" /\ last.outcome = "approved" /\ last.reapproval
    /\ cases(files)[last.patient_id].final_severity = "Severe"
    /\ cases(files)[last.patient_id].approved_by # cases(files)[last.patient_id].doctor_id
    /\ \E q \in PatientIds : status_of(files, q) = "Pending Review"

\* C9: a save writes the whole collection as the saving session loaded it, with
\* only that session's patient changed: every other patient's entry goes back to
\* what this session loaded, whatever another session has saved in between.
TheoremC9 ==
    [][\A s \in Sessions :
        LET sess == session[s]
            p == sess.patient_id
        IN /\ (sess.pc = "save_dashboard" /\ session'[s].pc = "done") =>
                /\ cases(files') = sess.dashboard
                /\ cases(files')[p].status = "Approved"
           /\ (sess.pc = "save_notifications" /\ session'[s].pc = "save_dashboard") =>
                /\ DOMAIN notes(files') = DOMAIN sess.notifications \cup {p}
                /\ \A q \in DOMAIN sess.notifications \ {p} :
                      notes(files')[q] = sess.notifications[q]
           /\ (sess.pc = "save_appointments" /\ session'[s].pc = "save_notifications") =>
                /\ DOMAIN appts(files') = DOMAIN sess.appointments \cup {p}
                /\ \A q \in DOMAIN sess.appointments \ {p} :
                      appts(files')[q] = sess.appointments[q]]_vars

\* two sessions have both reported success for different patients, yet one of
\* the two cases is Pending Review on disk, without notification or appointment
WitnessC9 ==
    \E s, t \in Sessions :
        /\ session[s].pc = "done" /\ session[s].outcome = "approved"
        /\ session[t].pc = "done" /\ session[t].outcome = "approved"
        /\ session[s].patient_id # session[t].patient_id
        /\ calls = 2
        /\ status_of(files, session[s].patient_id) = "Pending Review"
        /\ session[s].patient_id \notin DOMAIN notes(files)
        /\ cases(files)[session[s].patient_id].final_severity = "Severe"
        /\ session[s].patient_id \notin DOMAIN appts(files)
        /\ status_of(files, session[t].patient_id) = "Approved"
====
